---------------------------- MODULE Spec2Model ----------------------------
(***************************************************************************)
(* A model of webscrapper.py: the contact extractor, the category          *)
(* classifier, the page resolver (scrape_website), the website resolver    *)
(* and the two batch loops of main().                                      *)
(*                                                                         *)
(* Text is modelled as a sequence of characters, each character a string;  *)
(* the regular expressions of the source are modelled by operators that    *)
(* scan such sequences the way Python's re module does.                    *)
(***************************************************************************)
EXTENDS Integers, Sequences, FiniteSets, TLC

VARIABLES
    max_phones,    \* the "Max phones per company" setting, the max_phones argument
    \* ---- extract_contact_info(html, max_phones) on its own ---------------
    html,          \* the markup handed to extract_contact_info
    candidates,    \* its local raw_phones: the phone candidates, in match order
    emails,        \* the returned list of emails
    phones,        \* the returned list of phones
    nfrag,         \* the number of fragments the markup was composed of
    xphase,        \* "off" | "compose" | "done"
    \* ---- extract_category(soup) on its own -------------------------------
    soup,          \* the parsed document: what soup.find / soup.title give
    text,          \* its local text: the lower-cased source text
    category,      \* the returned label
    nwords,        \* the number of fragments the document's texts hold
    cphase,        \* "off" | "compose" | "done"
    \* ---- main(): one click of a "Start Scraping" button ------------------
    input_method,  \* "none" | "excel" | "urls"
    batch,         \* companies (excel) or the URL lines as typed (urls)
    urls_to_scrape,\* the URL lines after normalize (urls)
    loop_i,        \* the loop's i: the 1-based position in the batch
    pc,            \* "off" | "idle" | "loop" | "done" | "crashed"
    result_data,   \* the list result_data
    history,       \* per processed input: the calls made and their outcomes
    crash          \* the call an uncaught exception came out of, or "none"

xvars == <<html, candidates, emails, phones, nfrag, xphase>>
cvars == <<soup, text, category, nwords, cphase>>
pvars == <<input_method, batch, urls_to_scrape, loop_i, pc, result_data, history, crash>>
vars == <<max_phones, xvars, cvars, pvars>>

-----------------------------------------------------------------------------
(* Characters and character classes                                        *)

UpperSeq == <<"A","B","C","D","E","F","G","H","I","J","K","L","M",
              "N","O","P","Q","R","S","T","U","V","W","X","Y","Z">>
LowerSeq == <<"a","b","c","d","e","f","g","h","i","j","k","l","m",
              "n","o","p","q","r","s","t","u","v","w","x","y","z">>

Range(s) == {s[k] : k \in DOMAIN s}

UpperLetters == Range(UpperSeq)
LowerLetters == Range(LowerSeq)
Letters      == UpperLetters \cup LowerLetters
AsciiDigits  == {"0","1","2","3","4","5","6","7","8","9"}
\* A decimal digit outside ASCII (ARABIC-INDIC DIGIT THREE): Python's \d and
\* \D are Unicode-aware for str patterns, [0-9] and [6-9] are not.
ArabicThree  == "U+0663"
UnicodeDigits == AsciiDigits \cup {ArabicThree}
SixToNine    == {"6","7","8","9"}
Whitespace   == {" ", "\t", "\n"}

\* str.lower() on one character
ToLower(c) ==
    IF c \in UpperLetters
    THEN LowerSeq[CHOOSE k \in DOMAIN UpperSeq : UpperSeq[k] = c]
    ELSE c

\* str.lower()
Lower(s) == [k \in DOMAIN s |-> ToLower(s[k])]

\* s[i:] starts with the literal lit
MatchesLit(s, i, lit) ==
    /\ i >= 1
    /\ i + Len(lit) - 1 <= Len(s)
    /\ \A k \in 1..Len(lit) : s[i + k - 1] = lit[k]

\* the same under re.IGNORECASE, lit given in lower case
MatchesCI(s, i, lit) ==
    /\ i >= 1
    /\ i + Len(lit) - 1 <= Len(s)
    /\ \A k \in 1..Len(lit) : ToLower(s[i + k - 1]) = lit[k]

\* str.endswith
EndsWith(s, suffix) ==
    /\ Len(suffix) <= Len(s)
    /\ MatchesLit(s, Len(s) - Len(suffix) + 1, suffix)

\* the index of the last character of the longest run of characters of
\* class C that starts at i (i - 1 when there is none): a greedy C*
RECURSIVE RunEnd(_, _, _)
RunEnd(s, i, C) ==
    IF i <= Len(s) /\ s[i] \in C THEN RunEnd(s, i + 1, C) ELSE i - 1

\* the least element of a set of positions, 0 when it is empty
First(S) == IF S = {} THEN 0 ELSE CHOOSE x \in S : \A y \in S : x <= y

\* the least j >= i with s[j] = c, 0 when there is none: a lazy .*?c
IndexFrom(s, i, c) == First({j \in i..Len(s) : s[j] = c})

\* the least j >= i where lit occurs (ignoring case), 0 when there is none
IndexOfCI(s, i, lit) == First({j \in i..Len(s) : MatchesCI(s, j, lit)})

\* list(dict.fromkeys(xs)): duplicates dropped, first occurrences kept in order
RECURSIVE Dedup(_)
Dedup(xs) ==
    IF xs = <<>> THEN <<>>
    ELSE LET front == Dedup(SubSeq(xs, 1, Len(xs) - 1))
             last  == xs[Len(xs)]
         IN  IF last \in Range(front) THEN front ELSE Append(front, last)

\* xs[:n]
Take(xs, n) == SubSeq(xs, 1, IF n < Len(xs) THEN n ELSE Len(xs))

\* every ordering of a finite set, as sequences without repetition
Orderings(S) ==
    {q \in [1..Cardinality(S) -> S] : \A a, b \in DOMAIN q : a # b => q[a] # q[b]}

-----------------------------------------------------------------------------
(* extract_contact_info: the script/style filter                           *)

ScriptTag == <<"s","c","r","i","p","t">>
StyleTag  == <<"s","t","y","l","e">>
TagNames  == <<ScriptTag, StyleTag>>

\* The match of r'<(script|style).*?>.*?</\1>' (DOTALL | IGNORECASE) that
\* starts at i with the given tag: the index of its last character, 0 when
\* there is no match.  Both .*? are lazy, so the match takes the first ">"
\* after the tag name and the first closing tag after that.
BlockEndWith(s, i, tag) ==
    IF ~(MatchesLit(s, i, <<"<">>) /\ MatchesCI(s, i + 1, tag)) THEN 0
    ELSE LET gt == IndexFrom(s, i + 1 + Len(tag), ">")
             closing == <<"<", "/">> \o tag \o <<">">>
             cl == IF gt = 0 THEN 0 ELSE IndexOfCI(s, gt + 1, closing)
         IN  IF cl = 0 THEN 0 ELSE cl + Len(closing) - 1

BlockEndAt(s, i) ==
    IF BlockEndWith(s, i, TagNames[1]) > 0 THEN BlockEndWith(s, i, TagNames[1])
    ELSE BlockEndWith(s, i, TagNames[2])

\* re.sub(pattern, '', html): every match, left to right, removed
RECURSIVE StripFrom(_, _)
StripFrom(s, i) ==
    LET start == First({j \in i..Len(s) : BlockEndAt(s, j) > 0})
    IN  IF start = 0 THEN SubSeq(s, i, Len(s))
        ELSE SubSeq(s, i, start - 1) \o StripFrom(s, BlockEndAt(s, start) + 1)

StripBlocks(s) == StripFrom(s, 1)

-----------------------------------------------------------------------------
(* extract_contact_info: e-mail candidates and clean_emails                *)

LocalClass == Letters \cup AsciiDigits \cup {"_", ".", "+", "-"}
DomainClass == Letters \cup AsciiDigits \cup {"-"}
TailClass == Letters \cup AsciiDigits \cup {"-", "."}

\* The match of r"[a-zA-Z0-9_.+-]+@[a-zA-Z0-9-]+\.[a-zA-Z0-9-.]+" starting
\* at i: the index of its last character, 0 when there is none.  "@" and "."
\* lie outside the class before them, so each greedy run is taken whole.
EmailEndAt(s, i) ==
    LET a == RunEnd(s, i, LocalClass)
        b == RunEnd(s, a + 2, DomainClass)
        c == RunEnd(s, b + 2, TailClass)
    IN  IF /\ a >= i
           /\ MatchesLit(s, a + 1, <<"@">>)
           /\ b >= a + 2
           /\ MatchesLit(s, b + 1, <<".">>)
           /\ c >= b + 2
        THEN c ELSE 0

\* re.findall: the leftmost match at or after i, then the matches after it
RECURSIVE FindEmailsFrom(_, _)
FindEmailsFrom(s, i) ==
    LET start == First({j \in i..Len(s) : EmailEndAt(s, j) > 0})
        end   == EmailEndAt(s, start)
    IN  IF start = 0 THEN <<>>
        ELSE <<SubSeq(s, start, end)>> \o FindEmailsFrom(s, end + 1)

FindEmails(s) == FindEmailsFrom(s, 1)

AssetExtensions ==
    << <<".","j","s">>, <<".","c","s","s">>, <<".","p","n","g">>,
       <<".","j","p","g">>, <<".","j","p","e","g">>, <<".","g","i","f">>,
       <<".","s","v","g">> >>

HasAssetExtension(e) ==
    \E k \in DOMAIN AssetExtensions : EndsWith(e, AssetExtensions[k])

\* re.match(r"^[a-zA-Z0-9_.+-]+@[a-zA-Z0-9-]+\.[a-zA-Z]{2,}$", e); "$" also
\* matches before one trailing newline
StrictEmail(e) ==
    LET a == RunEnd(e, 1, LocalClass)
        b == RunEnd(e, a + 2, DomainClass)
        c == RunEnd(e, b + 2, Letters)
    IN  /\ a >= 1
        /\ MatchesLit(e, a + 1, <<"@">>)
        /\ b >= a + 2
        /\ MatchesLit(e, b + 1, <<".">>)
        /\ c >= b + 3
        /\ \/ c = Len(e)
           \/ c = Len(e) - 1 /\ e[Len(e)] = "\n"

\* the loop of clean_emails: the list valid_emails
RECURSIVE ValidEmails(_)
ValidEmails(raw) ==
    IF raw = <<>> THEN <<>>
    ELSE LET email == Lower(raw[1])
             rest  == ValidEmails(Tail(raw))
         IN  IF HasAssetExtension(email) THEN rest
             ELSE IF "@" \notin Range(email) THEN rest
             ELSE IF StrictEmail(email) THEN <<email>> \o rest
             ELSE rest

\* clean_emails with "return valid_emails" for its last line
clean_emails_without_set(raw) == {ValidEmails(raw)}

\* clean_emails returns list(set(valid_emails)): the distinct values in an
\* order the interpreter picks.  The operator gives every list it may return.
clean_emails(raw) == Orderings(Range(ValidEmails(raw)))

-----------------------------------------------------------------------------
(* extract_contact_info: phone candidates and clean_phones                 *)

Separators == Whitespace \cup {"-"}

\* (?:[\s-]*\d){n} from position i: the index of the last character, 0 when
\* it does not match
RECURSIVE DigitGroups(_, _, _)
DigitGroups(s, i, n) ==
    IF n = 0 THEN i - 1
    ELSE LET k == RunEnd(s, i, Separators) + 1
         IN  IF k <= Len(s) /\ s[k] \in UnicodeDigits
             THEN DigitGroups(s, k + 1, n - 1)
             ELSE 0

\* [6-9](?:[\s-]*\d){9} from position i
NationalEndAt(s, i) ==
    IF i >= 1 /\ i <= Len(s) /\ s[i] \in SixToNine
    THEN DigitGroups(s, i + 1, 9)
    ELSE 0

\* The match of r"(?:\+91[\s-]*)?[6-9](?:[\s-]*\d){9}" starting at i: with
\* the optional prefix first and, when that fails, without it.
PhoneEndAt(s, i) ==
    LET withPrefix ==
            IF MatchesLit(s, i, <<"+","9","1">>)
            THEN NationalEndAt(s, RunEnd(s, i + 3, Separators) + 1)
            ELSE 0
    IN  IF withPrefix > 0 THEN withPrefix ELSE NationalEndAt(s, i)

RECURSIVE FindPhonesFrom(_, _)
FindPhonesFrom(s, i) ==
    LET start == First({j \in i..Len(s) : PhoneEndAt(s, j) > 0})
        end   == PhoneEndAt(s, start)
    IN  IF start = 0 THEN <<>>
        ELSE <<SubSeq(s, start, end)>> \o FindPhonesFrom(s, end + 1)

FindPhones(s) == FindPhonesFrom(s, 1)

\* re.sub(r"\D", "", p)
DigitsOf(p) == SelectSeq(p, LAMBDA c : c \in UnicodeDigits)

\* the loop of clean_phones: the list valid_phones
RECURSIVE ValidPhones(_)
ValidPhones(raw) ==
    IF raw = <<>> THEN <<>>
    ELSE LET digits == DigitsOf(raw[1])
             rest   == ValidPhones(Tail(raw))
         IN  IF Len(digits) = 10 /\ digits[1] \in SixToNine
             THEN <<digits>> \o rest
             ELSE rest

\* clean_phones without the slice [:max_count]
clean_phones_without_slice(raw, max_count) == Dedup(ValidPhones(raw))

clean_phones(raw, max_count) == Take(Dedup(ValidPhones(raw)), max_count)

\* extract_contact_info(html, max_phones): every (emails, phones) it may return
extract_contact_info(h, mp) ==
    LET clean_html == StripBlocks(h)
        raw_emails == FindEmails(clean_html)
        raw_phones == FindPhones(clean_html)
        ph == clean_phones(raw_phones, mp)
    IN  {[emails |-> e, phones |-> ph] : e \in clean_emails(raw_emails)}

-----------------------------------------------------------------------------
(* extract_category                                                        *)

\* The dict CATEGORY_KEYWORDS, in its insertion order (the order a for loop
\* over .items() visits it).
CATEGORY_KEYWORDS == <<
    [category |-> "Skincare",
     keywords |-> <<
           <<"s","k","i","n","c","a","r","e">>,
           <<"s","k","i","n"," ","c","a","r","e">>,
           <<"f","a","c","e"," ","c","r","e","a","m">>,
           <<"m","o","i","s","t","u","r","i","z","e","r">>,
           <<"s","e","r","u","m">>,
           <<"l","o","t","i","o","n">>,
           <<"c","l","e","a","n","s","e","r">> >>],
    [category |-> "Hair Care",
     keywords |-> <<
           <<"s","h","a","m","p","o","o">>,
           <<"c","o","n","d","i","t","i","o","n","e","r">>,
           <<"h","a","i","r"," ","o","i","l">>,
           <<"h","a","i","r","c","a","r","e">>,
           <<"h","a","i","r"," ","m","a","s","k">> >>],
    [category |-> "Footwear",
     keywords |-> <<
           <<"s","h","o","e","s">>,
           <<"s","n","e","a","k","e","r","s">>,
           <<"s","a","n","d","a","l","s">>,
           <<"b","o","o","t","s">>,
           <<"f","o","o","t","w","e","a","r">> >>],
    [category |-> "Fragnances",
     keywords |-> <<
           <<"p","e","r","f","u","m","e">>,
           <<"f","r","a","g","r","a","n","c","e">>,
           <<"c","o","l","o","g","n","e">>,
           <<"d","e","o","d","o","r","a","n","t">>,
           <<"s","c","e","n","t">>,
           <<"a","r","o","m","a">>,
           <<"i","n","c","e","n","s","e">>,
           <<"e","s","s","e","n","t","i","a","l"," ","o","i","l">>,
           <<"d","i","f","f","u","s","e","r">>,
           <<"a","t","t","a","r">>,
           <<"r","o","o","m"," ","s","p","r","a","y">>,
           <<"a","r","o","m","a","t","h","e","r","a","p","y">> >>],
    [category |-> "Personal Care",
     keywords |-> <<
           <<"p","e","r","s","o","n","a","l"," ","c","a","r","e">>,
           <<"t","o","o","t","h","p","a","s","t","e">>,
           <<"s","o","a","p">>,
           <<"b","o","d","y"," ","w","a","s","h">>,
           <<"h","y","g","i","e","n","e">> >>],
    [category |-> "Clothing",
     keywords |-> <<
           <<"c","l","o","t","h","i","n","g">>,
           <<"a","p","p","a","r","e","l">>,
           <<"t","-","s","h","i","r","t">>,
           <<"j","e","a","n","s">>,
           <<"d","r","e","s","s">>,
           <<"f","a","s","h","i","o","n">>,
           <<"w","e","a","r">> >>],
    [category |-> "Electronics",
     keywords |-> <<
           <<"l","a","p","t","o","p">>,
           <<"m","o","b","i","l","e">>,
           <<"e","l","e","c","t","r","o","n","i","c","s">>,
           <<"g","a","d","g","e","t","s">>,
           <<"h","e","a","d","p","h","o","n","e","s">>,
           <<"s","m","a","r","t","p","h","o","n","e">> >>],
    [category |-> "Jewelry",
     keywords |-> <<
           <<"j","e","w","e","l","r","y">>,
           <<"r","i","n","g">>,
           <<"n","e","c","k","l","a","c","e">>,
           <<"b","r","a","c","e","l","e","t">>,
           <<"g","o","l","d">>,
           <<"s","i","l","v","e","r">> >>],
    [category |-> "Furniture",
     keywords |-> <<
           <<"f","u","r","n","i","t","u","r","e">>,
           <<"s","o","f","a">>,
           <<"t","a","b","l","e">>,
           <<"c","h","a","i","r">>,
           <<"i","n","t","e","r","i","o","r">> >>],
    [category |-> "Food & Beverages",
     keywords |-> <<
           <<"f","o","o","d">>,
           <<"b","e","v","e","r","a","g","e">>,
           <<"s","n","a","c","k","s">>,
           <<"d","r","i","n","k">>,
           <<"r","e","s","t","a","u","r","a","n","t">>,
           <<"c","a","f","e">> >>],
    [category |-> "Other",
     keywords |-> << >>] >>

\* kw in text
Contains(txt, kw) ==
    \E j \in 1..(Len(txt) - Len(kw) + 1) : MatchesLit(txt, j, kw)

\* A tag of the parsed document is [present, content]: content is the
\* "content" attribute of a <meta> (the string of <title>), <<>> when the
\* attribute is missing or empty (None and "" are both falsy).
NoTag == [present |-> FALSE, content |-> <<>>]

\* soup.find(...description) or soup.find(...og:description): a Tag object
\* is truthy whatever its attributes, so the first tag found is the result
FoundMeta(sp) == IF sp.meta_desc.present THEN sp.meta_desc ELSE sp.og_desc

\* lines 83-88: the text that is classified
source_text(sp) ==
    LET meta_desc == FoundMeta(sp)
    IN  IF meta_desc.present /\ meta_desc.content # <<>>
        THEN Lower(meta_desc.content)
        ELSE IF sp.title.present /\ sp.title.content # <<>>
        THEN Lower(sp.title.content)
        ELSE <<>>

\* lines 91-95: the first category, from position k on, one of whose
\* keywords occurs in the text; "Other" when the loop ends
RECURSIVE match_from(_, _)
match_from(txt, k) ==
    IF k > Len(CATEGORY_KEYWORDS) THEN "Other"
    ELSE IF \E n \in DOMAIN CATEGORY_KEYWORDS[k].keywords :
               Contains(txt, CATEGORY_KEYWORDS[k].keywords[n])
    THEN CATEGORY_KEYWORDS[k].category
    ELSE match_from(txt, k + 1)

extract_category(sp) == match_from(source_text(sp), 1)

-----------------------------------------------------------------------------
(* URLs: normalize, urlparse, urljoin                                      *)

HttpPrefix  == <<"h","t","t","p",":","/","/">>
HttpsPrefix == <<"h","t","t","p","s",":","/","/">>

\* u.startswith(("http://", "https://"))
HasScheme(u) == MatchesLit(u, 1, HttpPrefix) \/ MatchesLit(u, 1, HttpsPrefix)

\* lines 214-215
normalize(u) == IF HasScheme(u) THEN u ELSE HttpsPrefix \o u

\* the position after "scheme://" of a URL that has one of the two schemes
AfterScheme(u) ==
    IF MatchesLit(u, 1, HttpsPrefix) THEN Len(HttpsPrefix) + 1
    ELSE Len(HttpPrefix) + 1

\* urlparse(url).netloc of such a URL: up to the first of "/", "?", "#"
Netloc(u) ==
    LET from == AfterScheme(u)
        stop == First({j \in from..Len(u) : u[j] \in {"/", "?", "#"}})
    IN  SubSeq(u, from, IF stop = 0 THEN Len(u) ELSE stop - 1)

\* urlparse raises ValueError("Invalid IPv6 URL") when the netloc holds one
\* of "[" and "]" without the other
urlparse_raises(u) ==
    ("[" \in Range(Netloc(u))) # ("]" \in Range(Netloc(u)))

\* str.replace(old, ""): every occurrence of old, left to right, removed
RECURSIVE Remove(_, _)
Remove(s, old) ==
    LET at == First({j \in 1..Len(s) : MatchesLit(s, j, old)})
    IN  IF at = 0 THEN s
        ELSE SubSeq(s, 1, at - 1) \o Remove(SubSeq(s, at + Len(old), Len(s)), old)

\* s.split(".")[0]
BeforeDot(s) ==
    LET dot == IndexFrom(s, 1, ".")
    IN  IF dot = 0 THEN s ELSE SubSeq(s, 1, dot - 1)

\* line 224: parsed_url.netloc.replace("www.", "").split(".")[0]
company_name_of(u) == BeforeDot(Remove(Netloc(u), <<"w","w","w",".">>))

ContactPath == <<"/","c","o","n","t","a","c","t">>

\* line 99: urljoin(base_url, "/contact"), an absolute path on the base's
\* scheme and host (the path alone when the base has no scheme)
contact_url(base_url) ==
    IF HasScheme(base_url)
    THEN SubSeq(base_url, 1, AfterScheme(base_url) - 1) \o Netloc(base_url)
             \o ContactPath
    ELSE ContactPath

\* ", ".join(xs)
RECURSIVE Join(_)
Join(xs) ==
    IF xs = <<>> THEN <<>>
    ELSE IF Len(xs) = 1 THEN xs[1]
    ELSE xs[1] \o <<",", " ">> \o Join(Tail(xs))

-----------------------------------------------------------------------------
(* Bounds                                                                  *)

MaxFragments == 3   \* fragments a markup is composed of
MaxPhonesArg == 2   \* max_phones ranges over 1..MaxPhonesArg
MaxWords == 3       \* fragments the texts of a document hold
MaxBatch == 2       \* inputs of a batch

-----------------------------------------------------------------------------
(* The web: what a GET may answer                                          *)

EmptySoup == [meta_desc |-> NoTag, og_desc |-> NoTag, title |-> NoTag]

Tag(content) == [present |-> TRUE, content |-> content]

\* a failed requests.get / raise_for_status, with the exception's text
Failure(e) == [ok |-> FALSE, error |-> e, html |-> <<>>, soup |-> EmptySoup]

\* a 2xx answer: resp.text, and the document get_soup(resp.text) parses it to
\* (lines 76-80; the parser is BeautifulSoup's, its result is given here)
Page(h, sp) == [ok |-> TRUE, error |-> "", html |-> h, soup |-> sp]

ScenarioB == <<"B","u","y"," ","t","h","e"," ","b","e","s","t"," ","s","h","a","m","p","o","o"," ","a","n","d"," ","c","o","n","d","i","t","i","o","n","e","r">>

PageBoth ==
    Page(<<"I","n","f","o","@","S","h","o","p",".","c","o","m"," ","9","8","7","6","5"," ","4","3","2","1","0"," ","6","1","2","3","4","5","6","7","8","9">>,
         [EmptySoup EXCEPT !.meta_desc = Tag(ScenarioB)])

PagePhoneOnly ==
    Page(<<"c","a","l","l"," ","7","0","0","0","0","-","0","0","0","0","1">>,
         [EmptySoup EXCEPT !.title = Tag(<<"A","c","m","e"," ","P","e","r","f","u","m","e">>)])

PageNoFacts ==
    Page(<<"<","s","c","r","i","p","t",">","x","@","y",".","c","o","m"," ","9","9","9","9","9","9","9","9","9","9","<","/","s","c","r","i","p","t",">","h","e","l","l","o">>,
         EmptySoup)

Pages == {PageBoth, PagePhoneOnly, PageNoFacts}

FetchErrors == {"ReadTimeout", "HTTPError: 404 Client Error"}

Responses == {Failure(e) : e \in FetchErrors} \cup Pages

\* lines 38-46: requests.get(url, ...) then raise_for_status(); resp is what
\* the network answers.  requests raises MissingSchema, before any network
\* traffic, for a URL without a scheme.
fetch_html(url, resp) ==
    IF HasScheme(url) THEN resp ELSE Failure("MissingSchema")


\* extract_contact_info and extract_category are functions of their
\* arguments: their values on the pages above, computed once
ContactInfo ==
    [h \in {p.html : p \in Pages} |->
        [mp \in 1..MaxPhonesArg |-> extract_contact_info(h, mp)]]

CategoryOf == [sp \in {p.soup : p \in Pages} |-> extract_category(sp)]

-----------------------------------------------------------------------------
(* scrape_contact_page, scrape_website, get_website_from_search            *)

\* a or b, on lists
Or(a, b) == IF a # <<>> THEN a ELSE b

\* scrape_contact_page without its try/except: the failure of the GET
\* comes out of it
scrape_contact_page_without_except(base_url, mp, cresp) ==
    LET r == fetch_html(contact_url(base_url), cresp)
    IN  IF r.ok
        THEN {[raised |-> FALSE, error |-> "", emails |-> x.emails,
               phones |-> x.phones] : x \in ContactInfo[r.html][mp]}
        ELSE {[raised |-> TRUE, error |-> r.error, emails |-> <<>>,
               phones |-> <<>>]}

\* Lines 97-104.  The set of results the call may give, each
\* [raised, error, emails, phones]; raised is FALSE in all of them, the bare
\* except turns every failure into ([], []).
scrape_contact_page(base_url, mp, cresp) ==
    LET r == fetch_html(contact_url(base_url), cresp)
    IN  IF r.ok
        THEN {[raised |-> FALSE, error |-> "", emails |-> x.emails,
               phones |-> x.phones] : x \in ContactInfo[r.html][mp]}
        ELSE {[raised |-> FALSE, error |-> "", emails |-> <<>>, phones |-> <<>>]}

\* lines 115-116 with the operands of "or" exchanged
merge_contact_preferring_contact(e, ph, c) ==
    [emails |-> Or(c.emails, e), phones |-> Or(c.phones, ph)]

\* lines 115-116: emails = emails or c_emails; phones = phones or c_phones
merge_contact(e, ph, c) ==
    [emails |-> Or(e, c.emails), phones |-> Or(ph, c.phones)]

\* lines 119-124: the dict returned on success
success_record(url, e, ph, cat) ==
    [raised |-> FALSE,
     data |-> [Website |-> url, Emails |-> Join(e), Phone_Numbers |-> Join(ph),
               Category |-> <<cat>>]]

\* scrape_website without its try/except: the exception comes out of it
except_handler_reraising(url, e) ==
    [raised |-> TRUE,
     data |-> [Website |-> url, Emails |-> <<>>, Phone_Numbers |-> <<>>,
               Category |-> <<>>]]

\* lines 125-131: except Exception as e, and the dict returned there.  The
\* f-string is the sequence of its pieces.
except_handler(url, e) ==
    [raised |-> FALSE,
     data |-> [Website |-> url, Emails |-> <<>>, Phone_Numbers |-> <<>>,
               Category |-> <<"Failed to fetch: ", e>>]]

\* What one call of scrape_website did, beside what it returned: the GETs it
\* made, the primary answer, the facts of the primary page and of the contact
\* page, and whether the contact page was asked for ("none"), answered
\* ("fetched") or failed ("failed").
Traced(ret, fetches, r, pe, pp, contact, ce, cp) ==
    [raised |-> ret.raised, data |-> ret.data, fetches |-> fetches,
     primary |-> r, p_emails |-> pe, p_phones |-> pp,
     contact |-> contact, c_emails |-> ce, c_phones |-> cp]

Get(kind, url) == [kind |-> kind, url |-> url]

\* lines 112-124, after the primary page gave the facts x
after_primary(url, mp, r, x, cresp) ==
    IF x.emails # <<>>
    THEN {Traced(success_record(url, x.emails, x.phones, CategoryOf[r.soup]),
                 <<Get("primary", url)>>, r, x.emails, x.phones,
                 "none", <<>>, <<>>)}
    ELSE {LET m == merge_contact(x.emails, x.phones, c)
              ret == IF c.raised THEN except_handler(url, c.error)
                     ELSE success_record(url, m.emails, m.phones,
                                         CategoryOf[r.soup])
          IN  Traced(ret,
                     <<Get("primary", url), Get("contact", contact_url(url))>>,
                     r, x.emails, x.phones,
                     IF fetch_html(contact_url(url), cresp).ok
                     THEN "fetched" ELSE "failed",
                     c.emails, c.phones)
          : c \in scrape_contact_page(url, mp, cresp)}

\* Lines 106-131.  The set of outcomes of scrape_website(url, max_phones)
\* when the primary GET is answered resp and the contact GET cresp.
scrape_website(url, mp, resp, cresp) ==
    LET r == fetch_html(url, resp)
    IN  IF ~r.ok
        THEN {Traced(except_handler(url, r.error), <<Get("primary", url)>>,
                     r, <<>>, <<>>, "none", <<>>, <<>>)}
        ELSE UNION {after_primary(url, mp, r, x, cresp)
                        : x \in ContactInfo[r.html][mp]}

\* what the search collaborator may do: raise, or yield results, each with
\* its href (<<>> when the result has neither "href" nor "link")
SearchRaises == [raised |-> TRUE, results |-> <<>>]
SearchYields(hrefs) == [raised |-> FALSE, results |-> hrefs]

NoWebsite == <<>>

\* lines 133-143: the first result with a href, None otherwise
get_website_from_search(company_name, sresp) ==
    IF sresp.raised THEN NoWebsite
    ELSE LET hit == First({k \in DOMAIN sresp.results : sresp.results[k] # <<>>})
         IN  IF hit = 0 THEN NoWebsite ELSE sresp.results[hit]

-----------------------------------------------------------------------------
(* The values the idle parts of the model hold                             *)

XOff ==
    /\ html = <<>> /\ candidates = <<>> /\ emails = <<>> /\ phones = <<>>
    /\ nfrag = 0 /\ xphase = "off"

COff ==
    /\ soup = EmptySoup /\ text = <<>> /\ category = "" /\ nwords = 0
    /\ cphase = "off"

POff ==
    /\ input_method = "none" /\ batch = <<>> /\ urls_to_scrape = <<>>
    /\ loop_i = 0 /\ pc = "off" /\ result_data = <<>> /\ history = <<>>
    /\ crash = "none"

-----------------------------------------------------------------------------
(* The contact extractor on its own: a markup is composed of fragments,    *)
(* then extract_contact_info is applied to it                              *)

ScenarioA ==
    <<"C","o","n","t","a","c","t"," ","u","s"," ","a","t"," ","I","n","f","o",
      "@","S","h","o","p",".","c","o","m"," ","o","r"," ","c","a","l","l"," ",
      "+","9","1"," ","9","8","7","6","5"," ","4","3","2","1","0">>

Fragments ==
    { ScenarioA,
      <<"+","9","1"," ">>,
      <<"9","8","7","6","5"," ","4","3","2","1","0">>,
      <<"6","1","2","-","3","4","5","6","7","8",ArabicThree>>,
      <<" ","a","@","b",".","P","N","G"," ",
        "i","n","f","o","@","s","h","o","p",".","c","o","m"," ">>,
      <<"<","S","c","r","i","p","t"," ","x",">">>,
      <<"<","/","s","c","r","i","p","t",">">>,
      <<"7","0","0","0","0","0","0","0","0","1"," ",
        "9","8","7","6","5","-","4","3","2","1","0"," ">> }

XInit ==
    /\ max_phones \in 1..MaxPhonesArg
    /\ html = <<>> /\ candidates = <<>> /\ emails = <<>> /\ phones = <<>>
    /\ nfrag = 0 /\ xphase = "compose"
    /\ COff /\ POff

Compose(f) ==
    /\ xphase = "compose"
    /\ nfrag < MaxFragments
    /\ html' = html \o f
    /\ nfrag' = nfrag + 1
    /\ UNCHANGED <<max_phones, candidates, emails, phones, xphase, cvars, pvars>>

Extract ==
    /\ xphase = "compose"
    /\ \E r \in extract_contact_info(html, max_phones) :
          /\ emails' = r.emails
          /\ phones' = r.phones
    /\ candidates' = FindPhones(StripBlocks(html))
    /\ xphase' = "done"
    /\ UNCHANGED <<max_phones, html, nfrag, cvars, pvars>>

XNext ==
    \/ \E f \in Fragments : Compose(f)
    \/ Extract

SpecExtract == XInit /\ [][XNext]_vars

NoRepeats(xs) == \A a, b \in DOMAIN xs : a # b => xs[a] # xs[b]

\* the position, among the phone candidates in match order, of the first one
\* whose digits are p (0 when there is none)
FirstSeen(p) == First({k \in DOMAIN candidates : DigitsOf(candidates[k]) = p})

\* C5: every phone extract_contact_info returns is exactly 10 digits, the
\* first of them 6, 7, 8 or 9; the phones are pairwise distinct, at most
\* max_phones, and in the order in which they are first seen in the markup.
C5_PhonesWellFormed ==
    xphase = "done" =>
        /\ \A k \in DOMAIN phones :
              /\ Len(phones[k]) = 10
              /\ \A n \in 1..Len(phones[k]) : phones[k][n] \in UnicodeDigits
              /\ phones[k][1] \in {"6", "7", "8", "9"}
              /\ FirstSeen(phones[k]) > 0
        /\ NoRepeats(phones)
        /\ Len(phones) <= max_phones
        /\ \A a, b \in DOMAIN phones :
              a < b => FirstSeen(phones[a]) < FirstSeen(phones[b])

\* C5's case: a markup with a repeated phone and more distinct phones than
\* max_phones, of which several are returned
C5_Witness ==
    /\ xphase = "done"
    /\ Len(phones) >= 2
    /\ Len(phones) = max_phones
    /\ \E a, b \in DOMAIN candidates :
          a # b /\ DigitsOf(candidates[a]) = DigitsOf(candidates[b])
                /\ DigitsOf(candidates[a]) \in Range(phones)
    /\ \E a \in DOMAIN candidates :
          /\ Len(DigitsOf(candidates[a])) = 10
          /\ DigitsOf(candidates[a]) \notin Range(phones)

\* C6: the markup of Scenario A, "Contact us at Info@Shop.com or call
\* +91 98765 43210", yields emails = {"info@shop.com"} and
\* phones = ["9876543210"]: a number written with the +91 prefix is extracted
\* as its 10-digit national number.
C6_ScenarioA ==
    (xphase = "done" /\ html = ScenarioA) =>
        /\ Range(emails) = {<<"i","n","f","o","@","s","h","o","p",".","c","o","m">>}
        /\ phones = <<<<"9","8","7","6","5","4","3","2","1","0">>>>

StaticAssetSuffixes ==
    { <<".","j","s">>, <<".","c","s","s">>, <<".","p","n","g">>, <<".","j","p","g">>,
      <<".","j","p","e","g">>, <<".","g","i","f">>, <<".","s","v","g">> }

\* C7: every email extract_contact_info returns is lower-case, the emails are
\* pairwise distinct, and none ends in a static-asset extension.
C7_EmailsWellFormed ==
    xphase = "done" =>
        /\ \A k \in DOMAIN emails :
              /\ \A n \in 1..Len(emails[k]) : emails[k][n] \notin UpperLetters
              /\ \A x \in StaticAssetSuffixes : ~EndsWith(emails[k], x)
        /\ NoRepeats(emails)

\* C7's case: a markup with an upper-case address, the same address again in
\* another case, and an asset name of the shape of an address
C7_Witness ==
    /\ xphase = "done"
    /\ emails = <<<<"i","n","f","o","@","s","h","o","p",".","c","o","m">>>>
    /\ LET raw == FindEmails(StripBlocks(html))
       IN  /\ <<"I","n","f","o","@","S","h","o","p",".","c","o","m">> \in Range(raw)
           /\ <<"i","n","f","o","@","s","h","o","p",".","c","o","m">> \in Range(raw)
           /\ <<"a","@","b",".","P","N","G">> \in Range(raw)

-----------------------------------------------------------------------------
(* The category classifier on its own: a parsed document is composed, then *)
(* extract_category is applied to it                                       *)

TagNamesOfSoup == {"meta_desc", "og_desc", "title"}

Words ==
    { ScenarioB,
      <<"L","u","x","u","r","y"," ","P","e","r","f","u","m","e"," ">>,
      <<"r","u","n","n","i","n","g"," ","f","o","o","t","w","e","a","r"," ">>,
      <<"S","i","l","v","e","r"," ","S","e","r","u","m"," ">>,
      <<"A","c","m","e"," ">> }

CInit ==
    /\ max_phones = 1
    /\ soup = EmptySoup /\ text = <<>> /\ category = "" /\ nwords = 0
    /\ cphase = "compose"
    /\ XOff /\ POff

\* the document has the tag, without content
AddTag(f) ==
    /\ cphase = "compose"
    /\ ~soup[f].present
    /\ soup' = [soup EXCEPT ![f] = Tag(<<>>)]
    /\ UNCHANGED <<max_phones, text, category, nwords, cphase, xvars, pvars>>

\* the tag's content grows by a fragment
AppendText(f, w) ==
    /\ cphase = "compose"
    /\ soup[f].present
    /\ nwords < MaxWords
    /\ soup' = [soup EXCEPT ![f] = Tag(@.content \o w)]
    /\ nwords' = nwords + 1
    /\ UNCHANGED <<max_phones, text, category, cphase, xvars, pvars>>

Classify ==
    /\ cphase = "compose"
    /\ text' = source_text(soup)
    /\ category' = extract_category(soup)
    /\ cphase' = "done"
    /\ UNCHANGED <<max_phones, soup, nwords, xvars, pvars>>

CNext ==
    \/ \E f \in TagNamesOfSoup : AddTag(f)
    \/ \E f \in TagNamesOfSoup : \E w \in Words : AppendText(f, w)
    \/ Classify

SpecCategory == CInit /\ [][CNext]_vars

\* C8: the classified text is the meta description's content if it has
\* content, else the og:description's content if it has content, else the
\* title's text, else the empty string.
C8_SourcePriority ==
    cphase = "done" =>
        text = Lower(IF soup.meta_desc.content # <<>> THEN soup.meta_desc.content
                     ELSE IF soup.og_desc.content # <<>> THEN soup.og_desc.content
                     ELSE IF soup.title.content # <<>> THEN soup.title.content
                     ELSE <<>>)

Taxonomy ==
    <<"Skincare", "Hair Care", "Footwear", "Fragrances", "Personal Care",
      "Clothing", "Electronics", "Jewelry", "Furniture", "Food & Beverages",
      "Other">>

\* the position in the taxonomy of the first category one of whose keywords
\* occurs in the text (0 when there is none)
FirstMatching(txt) ==
    First({k \in DOMAIN CATEGORY_KEYWORDS :
              \E n \in DOMAIN CATEGORY_KEYWORDS[k].keywords :
                  Contains(txt, CATEGORY_KEYWORDS[k].keywords[n])})

\* C9: extract_category returns one label of the taxonomy Skincare, Hair
\* Care, Footwear, Fragrances, Personal Care, Clothing, Electronics, Jewelry,
\* Furniture, Food & Beverages, Other: the first, in that order, with a
\* keyword that occurs in the lower-cased text, "Other" when none does.
C9_TaxonomyLabel ==
    cphase = "done" =>
        /\ category \in Range(Taxonomy)
        /\ category = IF FirstMatching(text) = 0 THEN "Other"
                      ELSE Taxonomy[FirstMatching(text)]

-----------------------------------------------------------------------------
(* main(): one click of "Start Scraping from Excel" or "Start Scraping     *)
(* URLs", and the loop over the batch                                      *)

Companies == { <<"A","c","m","e">>, <<"S","h","o","p"," ","C","o">> }

UrlLines ==
    { <<"s","h","o","p",".","c","o","m">>,
      <<"h","t","t","p",":","/","/","w","w","w",".","a","c","m","e",".","i","n","/","a","?","b">>,
      <<"[">> }

SearchHrefs == { <<"h","t","t","p","s",":","/","/","s","h","o","p",".","c","o","m">>, <<"s","h","o","p",".","c","o","m">> }

SearchResponses ==
    {SearchRaises, SearchYields(<<>>), SearchYields(<< <<>> >>)}
        \cup {SearchYields(<<h>>) : h \in SearchHrefs}

\* the lists of at most n elements of S
ListsUpTo(S, n) == UNION {[1..k -> S] : k \in 0..n}

NotFound == <<"N","o","t"," ","F","o","u","n","d">>

PInit ==
    /\ max_phones \in 1..MaxPhonesArg
    /\ input_method = "none" /\ batch = <<>> /\ urls_to_scrape = <<>>
    /\ loop_i = 0 /\ pc = "idle" /\ result_data = <<>> /\ history = <<>>
    /\ crash = "none"
    /\ XOff /\ COff

\* lines 170-175: the companies of the uploaded sheet (possibly none)
StartExcel ==
    /\ pc = "idle"
    /\ \E companies \in ListsUpTo(Companies, MaxBatch) : batch' = companies
    /\ input_method' = "excel"
    /\ urls_to_scrape' = <<>>
    /\ loop_i' = 1
    /\ result_data' = <<>>
    /\ pc' = "loop"
    /\ UNCHANGED <<max_phones, history, crash, xvars, cvars>>

\* lines 203-220: the URL lines typed, stripped and not empty; with no line
\* at all the click only warns and returns (line 210), which changes nothing
StartUrls ==
    /\ pc = "idle"
    /\ \E lines \in ListsUpTo(UrlLines, MaxBatch) :
          /\ lines # <<>>
          /\ batch' = lines
          /\ urls_to_scrape' = [k \in DOMAIN lines |-> normalize(lines[k])]
    /\ input_method' = "urls"
    /\ loop_i' = 1
    /\ result_data' = <<>>
    /\ pc' = "loop"
    /\ UNCHANGED <<max_phones, history, crash, xvars, cvars>>

\* what the history keeps of an input for which no page was asked
NotScraped(input) ==
    [input |-> input, website |-> NoWebsite, fetches |-> <<>>,
     primary |-> Failure(""), p_emails |-> <<>>, p_phones |-> <<>>,
     contact |-> "none", c_emails |-> <<>>, c_phones |-> <<>>]

Scraped(input, website, o) ==
    [input |-> input, website |-> website, fetches |-> o.fetches,
     primary |-> o.primary, p_emails |-> o.p_emails, p_phones |-> o.p_phones,
     contact |-> o.contact, c_emails |-> o.c_emails, c_phones |-> o.c_phones]

\* data = scrape_website(...); data["Company"] = company;
\* result_data.append(data): an exception out of scrape_website would end
\* the run instead
AppendScraped(input, company, website, o) ==
    IF o.raised
    THEN /\ pc' = "crashed"
         /\ crash' = "scrape_website"
         /\ UNCHANGED <<result_data, history, loop_i>>
    ELSE /\ result_data' = Append(result_data,
                                  [Company |-> company] @@ o.data)
         /\ history' = Append(history, Scraped(input, website, o))
         /\ loop_i' = loop_i + 1
         /\ UNCHANGED <<pc, crash>>

\* lines 177-188: one turn of the loop over the companies
NameIteration ==
    /\ pc = "loop" /\ input_method = "excel"
    /\ loop_i <= Len(batch)
    /\ \E sresp \in SearchResponses :
          LET company == batch[loop_i]
              website == get_website_from_search(company, sresp)
          IN  IF website = NoWebsite
              THEN /\ result_data' = Append(result_data,
                          [Company |-> company, Website |-> NotFound,
                           Emails |-> <<>>, Phone_Numbers |-> <<>>,
                           Category |-> <<"Website not found">>])
                   /\ history' = Append(history, NotScraped(company))
                   /\ loop_i' = loop_i + 1
                   /\ UNCHANGED <<pc, crash>>
              ELSE \E resp \in Responses, cresp \in Responses :
                     \E o \in scrape_website(website, max_phones, resp, cresp) :
                        AppendScraped(company, company, website, o)
    /\ UNCHANGED <<max_phones, input_method, batch, urls_to_scrape, xvars, cvars>>

\* lines 222-232: one turn of the loop over the URLs; urlparse is called
\* outside any try
UrlIteration ==
    /\ pc = "loop" /\ input_method = "urls"
    /\ loop_i <= Len(urls_to_scrape)
    /\ LET url == urls_to_scrape[loop_i]
       IN  IF urlparse_raises(url)
           THEN /\ pc' = "crashed"
                /\ crash' = "urlparse"
                /\ UNCHANGED <<result_data, history, loop_i>>
           ELSE \E resp \in Responses, cresp \in Responses :
                  \E o \in scrape_website(url, max_phones, resp, cresp) :
                     AppendScraped(batch[loop_i], company_name_of(url), url, o)
    /\ UNCHANGED <<max_phones, input_method, batch, urls_to_scrape, xvars, cvars>>

\* lines 190-196 and 234-239: the loop is over, the results are kept
Finish ==
    /\ pc = "loop"
    /\ loop_i > Len(batch)
    /\ pc' = "done"
    /\ UNCHANGED <<max_phones, input_method, batch, urls_to_scrape, loop_i,
                   result_data, history, crash, xvars, cvars>>

Next ==
    \/ StartExcel
    \/ StartUrls
    \/ NameIteration
    \/ UrlIteration
    \/ Finish

Spec == PInit /\ [][Next]_vars

-----------------------------------------------------------------------------
(* The claims about the batch loop and scrape_website                      *)

\* the record at position k of result_data is the record of input k
RecordOfInput(k) ==
    IF input_method = "excel"
    THEN result_data[k].Company = batch[k]
    ELSE result_data[k].Website = normalize(batch[k])

\* C1: for every batch and every outcome of the search and of the fetches
\* the loop runs to completion, and result_data then holds exactly one
\* record per input, in input order.
C1_OneRecordPerInput ==
    /\ pc # "crashed"
    /\ pc = "loop" => Len(result_data) = loop_i - 1
    /\ pc = "done" =>
          /\ Len(result_data) = Len(batch)
          /\ \A k \in DOMAIN result_data : RecordOfInput(k)

\* C2: scrape_website never raises; when the primary fetch fails, its record
\* has the URL, empty Emails, empty Phone Numbers and a Category that is a
\* failure message embedding the error, and the loop goes on with the next
\* input.
C2_PrimaryFailureRecord ==
    /\ crash # "scrape_website"
    /\ \A k \in DOMAIN history :
          (history[k].fetches # <<>> /\ ~history[k].primary.ok) =>
              /\ result_data[k].Website = history[k].website
              /\ result_data[k].Emails = <<>>
              /\ result_data[k].Phone_Numbers = <<>>
              /\ history[k].primary.error # ""
              /\ result_data[k].Category =
                     <<"Failed to fetch: ", history[k].primary.error>>
              /\ (k = Len(result_data) /\ k < Len(batch)) =>
                     \/ pc = "loop" /\ loop_i = k + 1
                     \/ crash = "urlparse"

\* C2's case: a primary fetch timed out, and the next input was processed
C2_Witness ==
    \E k \in DOMAIN history :
        /\ history[k].fetches # <<>>
        /\ history[k].primary = Failure("ReadTimeout")
        /\ Len(result_data) > k

\* C3: the contact-page fallback never overwrites a non-empty primary-page
\* result: primary emails, when there are any, are the record's emails, and
\* primary phones, when there are any, are the record's phones; contact-page
\* values are in a field only when it was empty after primary extraction.
C3_FallbackNeverOverwrites ==
    \A k \in DOMAIN history :
        history[k].primary.ok =>
            /\ history[k].p_emails # <<>> =>
                  result_data[k].Emails = Join(history[k].p_emails)
            /\ history[k].p_phones # <<>> =>
                  result_data[k].Phone_Numbers = Join(history[k].p_phones)
            /\ result_data[k].Emails # Join(history[k].p_emails) =>
                  /\ history[k].p_emails = <<>>
                  /\ history[k].contact = "fetched"
                  /\ result_data[k].Emails = Join(history[k].c_emails)
            /\ result_data[k].Phone_Numbers # Join(history[k].p_phones) =>
                  /\ history[k].p_phones = <<>>
                  /\ history[k].contact = "fetched"
                  /\ result_data[k].Phone_Numbers = Join(history[k].c_phones)

\* C3's case: the primary page gave phones and no email, and the contact
\* page gave emails and other phones
C3_Witness ==
    \E k \in DOMAIN history :
        /\ history[k].primary.ok
        /\ history[k].p_emails = <<>>
        /\ history[k].p_phones # <<>>
        /\ history[k].contact = "fetched"
        /\ history[k].c_emails # <<>>
        /\ history[k].c_phones # <<>>
        /\ history[k].c_phones # history[k].p_phones
        /\ result_data[k].Emails = Join(history[k].c_emails)

ContactGets(h) == {n \in DOMAIN h.fetches : h.fetches[n].kind = "contact"}

\* C4: /contact is fetched only after a successful primary fetch whose
\* extraction found no email, at most once per input; when that fetch fails
\* the record is a normal one: empty emails, the phones of the primary page,
\* the category classified from the primary page.
C4_ContactFailureSwallowed ==
    \A k \in DOMAIN history :
        /\ Cardinality(ContactGets(history[k])) <= 1
        /\ \A n \in ContactGets(history[k]) :
              /\ history[k].primary.ok
              /\ history[k].p_emails = <<>>
              /\ n > 1
              /\ history[k].fetches[n - 1].kind = "primary"
        /\ history[k].contact # "none" <=> ContactGets(history[k]) # {}
        /\ history[k].contact = "failed" =>
              /\ result_data[k].Emails = <<>>
              /\ result_data[k].Phone_Numbers = Join(history[k].p_phones)
              /\ result_data[k].Category =
                     <<extract_category(history[k].primary.soup)>>

\* C4's case: the primary page gave phones and no email, and the GET of
\* /contact failed
C4_Witness ==
    \E k \in DOMAIN history :
        /\ history[k].contact = "failed"
        /\ history[k].p_phones # <<>>
        /\ result_data[k].Phone_Numbers # <<>>

\* C10: every URL passed to the fetcher for a primary page starts with
\* "http://" or "https://", for a URL typed by the user and for a URL that
\* the search collaborator gave for a company name.
C10_PrimaryUrlHasScheme ==
    \A k \in DOMAIN history :
        \A n \in DOMAIN history[k].fetches :
            history[k].fetches[n].kind = "primary" =>
                \/ MatchesLit(history[k].fetches[n].url, 1, HttpPrefix)
                \/ MatchesLit(history[k].fetches[n].url, 1, HttpsPrefix)

=============================================================================
